---- MODULE Spec2Model ----
(***************************************************************************)
(* Model of the HTML -> MDX migration toolchain of the blog repository:    *)
(* the batch driver (convertAll.js), the converter (converter.js), the     *)
(* parser (htmlParser.js), the validator (validator.js) and the cleanup    *)
(* manager (cleanup.js), and of the post list of the site (posts.ts).      *)
(*                                                                         *)
(* Text is modelled as a sequence of one-character strings wherever the    *)
(* code inspects its characters (titles, authors, dates, slugs, file       *)
(* names, the text the rewriter normalises) and by its length where the    *)
(* code only measures it (the body of a record).                           *)
(***************************************************************************)
EXTENDS Integers, Sequences, FiniteSets, TLC

(***************************************************************************)
(* Characters                                                              *)
(***************************************************************************)
LowerSeq == <<"a","b","c","d","e","f","g","h","i","j","k","l","m",
              "n","o","p","q","r","s","t","u","v","w","x","y","z">>

UpperSeq == <<"A","B","C","D","E","F","G","H","I","J","K","L","M",
              "N","O","P","Q","R","S","T","U","V","W","X","Y","Z">>

Digits == {"0","1","2","3","4","5","6","7","8","9"}

Range(s) == { s[i] : i \in DOMAIN s }

LowerLetters == Range(LowerSeq)

UpperLetters == Range(UpperSeq)

\* String.prototype.toLowerCase on one character
LowerChar(c) ==
  IF c \in UpperLetters
    THEN LowerSeq[CHOOSE i \in DOMAIN UpperSeq : UpperSeq[i] = c]
    ELSE c

ToLower(s) == [ i \in DOMAIN s |-> LowerChar(s[i]) ]

\* \s of the regular expressions, over the characters the model uses
IsSpace(c) == c \in {" ", "\t", "\n"}

RECURSIVE Flatten(_)
\* concatenation of a sequence of sequences
Flatten(ss) == IF ss = <<>> THEN <<>> ELSE Head(ss) \o Flatten(Tail(ss))

RECURSIVE StripLeft(_, _)
StripLeft(s, c) ==
  IF s # <<>> /\ Head(s) = c THEN StripLeft(Tail(s), c) ELSE s

RECURSIVE StripRight(_, _)
StripRight(s, c) ==
  IF s # <<>> /\ s[Len(s)] = c THEN StripRight(SubSeq(s, 1, Len(s) - 1), c) ELSE s

RECURSIVE SquashRuns(_, _)
\* every maximal run of the character c becomes a single c
SquashRuns(s, c) ==
  IF Len(s) < 2 THEN s
  ELSE IF s[1] = c /\ s[2] = c THEN SquashRuns(Tail(s), c)
  ELSE <<s[1]>> \o SquashRuns(Tail(s), c)

(***************************************************************************)
(* Slugs and file names                                                    *)
(***************************************************************************)
\* cleanup.js slugify: lower-case, runs of [^a-z0-9] -> "-", trim hyphens
slugify(text) ==
  LET low    == ToLower(text)
      marked == [ i \in DOMAIN low |->
                   IF low[i] \in LowerLetters \cup Digits THEN low[i] ELSE "-" ]
  IN  StripRight(StripLeft(SquashRuns(marked, "-"), "-"), "-")

\* the slugify package as converter.js calls it, { lower: true, strict: true }:
\* the replacement character "-" counts as a space, "&" is spelled out by the
\* package's character map, strict mode deletes everything but letters,
\* digits and white space, the result is trimmed, white-space runs become one
\* "-" and the text is lower-cased.
SlugifyStrict(title) ==
  LET mapped == Flatten([ i \in DOMAIN title |->
                   IF title[i] = "-" THEN <<" ">>
                   ELSE IF title[i] = "&" THEN <<"a","n","d">>
                   ELSE <<title[i]>> ])
      kept   == SelectSeq(mapped,
                   LAMBDA c : c \in LowerLetters \cup UpperLetters \cup Digits
                              \/ IsSpace(c))
      spaced == [ i \in DOMAIN kept |-> IF IsSpace(kept[i]) THEN " " ELSE kept[i] ]
      trimmed == StripRight(StripLeft(spaced, " "), " ")
      dashed == [ i \in DOMAIN trimmed |->
                   IF trimmed[i] = " " THEN "-" ELSE trimmed[i] ]
  IN  ToLower(SquashRuns(dashed, "-"))

MdxExt == <<".","m","d","x">>

\* faulty variant: the name is built slug first
generateFilename_SlugFirst(date, title) ==
  SlugifyStrict(title) \o <<"-">> \o date \o MdxExt

\* converter.js generateFilename: `${date}-${slug}.mdx`
generateFilename(date, title) == date \o <<"-">> \o SlugifyStrict(title) \o MdxExt

(***************************************************************************)
(* Source documents                                                        *)
(*                                                                         *)
(* A source document is a record                                           *)
(*   nameFmt, nameDate, nameTitle : the parts of its HTML file name        *)
(*        (YYYY-MM-DD_Title-<12 hex>.html, draft_Title-<12 hex>.html, or   *)
(*        any other *.html name); the 12 hex digits are the source's id    *)
(*   title, author : the text of h1.p-name and of a.p-author.h-card        *)
(*        (empty when the element is missing)                              *)
(*   datetime : the datetime attribute of time.dt-published                *)
(*   hasSection : whether section[data-field="body"].e-content exists      *)
(*   body : the children of that section, in document order                *)
(*        [k |-> "p", plain, bold] a paragraph of `plain` characters of    *)
(*             plain text followed by a <strong> of `bold` characters      *)
(*        [k |-> "img", host, file, fig, alt] an image, inside a <figure>  *)
(*             or directly under the section, with its alt text's length   *)
(*        [k |-> "figs", imgs] a <figure> that holds several img elements  *)
(***************************************************************************)
UnknownTitle  == <<"U","n","k","n","o","w","n"," ","t","i","t","l","e">>

UnknownAuthor == <<"U","n","k","n","o","w","n"," ","a","u","t","h","o","r">>

UnknownDate   == <<"U","n","k","n","o","w","n"," ","d","a","t","e">>

UnknownImage  == [kind |-> "unknown", file |-> ""]

RECURSIVE TrimLeft(_)
TrimLeft(s) == IF s # <<>> /\ IsSpace(Head(s)) THEN TrimLeft(Tail(s)) ELSE s

RECURSIVE TrimRight(_)
TrimRight(s) ==
  IF s # <<>> /\ IsSpace(s[Len(s)]) THEN TrimRight(SubSeq(s, 1, Len(s) - 1)) ELSE s

\* String.prototype.trim
Trim(s) == TrimRight(TrimLeft(s))

DigitSeq == <<"0","1","2","3","4","5","6","7","8","9">>

RECURSIVE Pad(_, _)
\* String(n).padStart(width, "0") for n >= 0
Pad(n, width) ==
  IF width = 0 THEN <<>>
  ELSE Pad(n \div 10, width - 1) \o << DigitSeq[(n % 10) + 1] >>

\* Date.prototype.toISOString().split('T')[0] of a valid time value: years
\* 0 to 9999 print as four digits, any other year as a sign and six digits
toISODate(t) ==
  LET year == IF t.year >= 0 /\ t.year <= 9999
                THEN Pad(t.year, 4)
                ELSE << IF t.year < 0 THEN "-" ELSE "+" >>
                     \o Pad(IF t.year < 0 THEN 0 - t.year ELSE t.year, 6)
  IN  year \o <<"-">> \o Pad(t.month, 2) \o <<"-">> \o Pad(t.day, 2)

\* faulty variant: an empty title is passed on instead of the sentinel
extractMetadata_NoTitleSentinel(doc) ==
  [ title  |-> Trim(doc.title),
    author |-> IF Trim(doc.author) # <<>> THEN Trim(doc.author) ELSE UnknownAuthor,
    date   |-> IF doc.datetime.kind = "valid" THEN toISODate(doc.datetime) ELSE UnknownDate,
    heroImage |-> UnknownImage ]

\* faulty variant: the author text is trimmed after the sentinel is chosen
extractMetadata_NoAuthorTrim(doc) ==
  [ title  |-> IF Trim(doc.title) # <<>> THEN Trim(doc.title) ELSE UnknownTitle,
    author |-> IF doc.author # <<>> THEN Trim(doc.author) ELSE UnknownAuthor,
    date   |-> IF doc.datetime.kind = "valid" THEN toISODate(doc.datetime) ELSE UnknownDate,
    heroImage |-> UnknownImage ]

\* htmlParser.js extractMetadata: datetime.kind is "missing" when the
\* attribute is absent or empty, "invalid" when new Date() gives an invalid
\* date (toISOString throws, the catch keeps the sentinel), "valid" otherwise
extractMetadata(doc) ==
  [ title  |-> IF Trim(doc.title) # <<>> THEN Trim(doc.title) ELSE UnknownTitle,
    author |-> IF Trim(doc.author) # <<>> THEN Trim(doc.author) ELSE UnknownAuthor,
    date   |-> IF doc.datetime.kind = "valid" THEN toISODate(doc.datetime) ELSE UnknownDate,
    heroImage |-> UnknownImage ]

\* faulty variant: the body is taken whether or not the content section exists
extractContent_NoSectionCheck(doc) == doc.body

\* htmlParser.js extractContent: the empty string when there is no content
\* section, the section's children otherwise
extractContent(doc) == IF doc.hasSection THEN doc.body ELSE <<>>

\* the img elements of one block of the section, in document order
ImagesOf(b) ==
  IF b.k = "img" THEN << b >> ELSE IF b.k = "figs" THEN b.imgs ELSE << >>

\* htmlParser.js extractImages: the img elements of the content section,
\* the one at index 0 flagged isFirst
extractImages(doc) ==
  LET content == extractContent(doc)
      imgs == Flatten([ i \in DOMAIN content |-> ImagesOf(content[i]) ])
  IN  [ i \in DOMAIN imgs |->
          [ host |-> imgs[i].host, file |-> imgs[i].file, isFirst |-> (i = 1) ] ]

\* faulty variant: the first image that exists locally becomes the hero
processImages_FirstResolvable(images, localImages, dirOk) ==
  LET processed == IF dirOk
        THEN [ i \in DOMAIN images |->
                 [ host |-> images[i].host, file |-> images[i].file,
                   isFirst |-> images[i].isFirst,
                   localFileExists |-> images[i].file \in localImages ] ]
        ELSE <<>>
      heroes == { i \in DOMAIN processed : processed[i].localFileExists }
  IN  [ processedImages |-> processed,
        heroImage |-> IF heroes = {} THEN [kind |-> "unknown", file |-> ""]
                      ELSE [ kind |-> "local",
                             file |-> processed[CHOOSE i \in heroes :
                                         \A j \in heroes : i <= j].file ] ]

\* faulty variant: images that are missing locally are fetched into the
\* image directory
imagesDirAfter_Fetch(dir, images) == dir \cup { images[i].file : i \in DOMAIN images }

\* converter.js processImages only lists the image directory: what the
\* directory holds after a call
imagesDirAfter(dir, images) == dir

\* converter.js processImages: dirOk says whether fs.readdir(imagesDir)
\* succeeded; when it throws, the catch leaves the list empty
processImages(images, localImages, dirOk) ==
  LET processed == IF dirOk
        THEN [ i \in DOMAIN images |->
                 [ host |-> images[i].host, file |-> images[i].file,
                   isFirst |-> images[i].isFirst,
                   localFileExists |-> images[i].file \in localImages ] ]
        ELSE <<>>
      heroes == { i \in DOMAIN processed :
                    processed[i].isFirst /\ processed[i].localFileExists }
  IN  [ processedImages |-> processed,
        heroImage |-> IF heroes = {} THEN UnknownImage
                      ELSE [ kind |-> "local",
                             file |-> processed[CHOOSE i \in heroes :
                                         \A j \in heroes : i <= j].file ] ]

\* images.find(img => img.originalSrc === src): index of the first processed
\* image with that source, 0 when there is none
FindProcessed(images, host, file) ==
  LET hits == { i \in DOMAIN images : images[i].host = host /\ images[i].file = file }
  IN  IF hits = {} THEN 0 ELSE CHOOSE i \in hits : \A j \in hits : i <= j

\* converter.js convertContentToMDX, the img loop on one image: what becomes
\* of it ("removed", or kept with a source) and whether readdirSync is called
RelinkImage(b, images, localImages) ==
  LET p == FindProcessed(images, b.host, b.file)
  IN  IF p # 0 /\ images[p].localFileExists
        THEN IF images[p].isFirst
               THEN [ keep |-> FALSE, host |-> b.host, reads |-> FALSE ]
               ELSE [ keep |-> TRUE, host |-> "local", reads |-> FALSE ]
      ELSE IF b.host = "cdn"
        THEN [ keep |-> TRUE,
               host |-> IF b.file \in localImages THEN "local" ELSE "cdn",
               reads |-> TRUE ]
      ELSE [ keep |-> TRUE, host |-> b.host, reads |-> FALSE ]

\* the text a paragraph `plain<strong>bold</strong>` becomes: the strong
\* element is replaced by **bold** (convertHTMLToMarkdown), the paragraph by
\* its trimmed text (cleanupHTMLStructure)
ParagraphMarkdown(plain, bold) ==
  Trim(plain \o (IF bold = <<>> THEN <<>> ELSE <<"*","*">> \o bold \o <<"*","*">>))

\* one block of the body after convertHTMLToMarkdown and cleanupHTMLStructure:
\* <<>> when the block disappears, else one item of the rewritten body
RewriteBlock(b, images, localImages) ==
  IF b.k = "p"
    THEN IF b.plain + b.bold = 0 THEN <<>>
         ELSE << [ k |-> "text",
                   len |-> b.plain + (IF b.bold > 0 THEN b.bold + 4 ELSE 0),
                   md |-> b.bold > 0, host |-> "", file |-> "", alt |-> 0 ] >>
  ELSE IF b.k = "img"
    THEN LET r == RelinkImage(b, images, localImages)
         IN  IF ~r.keep THEN <<>>
             ELSE << [ k |-> IF b.fig THEN "mdimg" ELSE "htmlimg",
                       len |-> 0, md |-> FALSE,
                       host |-> r.host, file |-> b.file, alt |-> b.alt ] >>
  \* cleanupHTMLStructure: a figure left with exactly one img becomes a
  \* markdown image, any other figure is removed with what it holds
  ELSE LET left == SelectSeq(b.imgs,
                     LAMBDA im : RelinkImage(im, images, localImages).keep)
       IN  IF Len(left) # 1 THEN <<>>
           ELSE << [ k |-> "mdimg", len |-> 0, md |-> FALSE,
                     host |-> RelinkImage(left[1], images, localImages).host,
                     file |-> left[1].file, alt |-> left[1].alt ] >>

\* converter.js convertContentToMDX: the rewritten body, or a throw when the
\* img loop calls readdirSync on an unreadable image directory
convertContentToMDX(content, images, localImages, dirOk) ==
  LET reads == \E i \in DOMAIN content :
                 \E j \in DOMAIN ImagesOf(content[i]) :
                    RelinkImage(ImagesOf(content[i])[j], images, localImages).reads
  IN  IF reads /\ ~dirOk
        THEN [ threw |-> TRUE, items |-> <<>> ]
        ELSE [ threw |-> FALSE,
               items |-> Flatten([ i \in DOMAIN content |->
                            RewriteBlock(content[i], images, localImages) ]) ]

(***************************************************************************)
(* Output records                                                          *)
(*                                                                         *)
(* The text of an MDX file is `${frontmatter}\n\n${body}`; it is kept as   *)
(* the record [title, author, date, heroImage, tags, body] it is printed   *)
(* from, and measured by the operators below.                              *)
(***************************************************************************)
RECURSIVE SumLen(_)
SumLen(ss) == IF ss = <<>> THEN 0 ELSE Len(Head(ss)) + SumLen(Tail(ss))

\* length of an image source as it is printed
SrcLen(host, file) ==
  CASE host = "local" -> 14 + Len(file)      \* /images/posts/<file>
    [] host = "cdn"   -> 40 + Len(file)      \* https://cdn-images-1.medium.com/max/800/<file>
    [] OTHER          -> 20 + Len(file)      \* https://example.com/<file>

\* length of one item of the rewritten body
ItemLen(it) ==
  CASE it.k = "text"  -> it.len
    [] it.k = "mdimg" -> 5 + it.alt + SrcLen(it.host, it.file)   \* ![alt](src)
    [] OTHER          -> 12 + SrcLen(it.host, it.file)           \* <img src="...">
                         + (IF it.alt > 0 THEN 7 + it.alt ELSE 0)

RECURSIVE BodyLen(_)
\* length of the body after cleanHTMLText's trim: paragraphs and figures are
\* followed by "\n\n", the last one's is trimmed away
BodyLen(items) ==
  IF items = <<>> THEN 0
  ELSE ItemLen(Head(items))
       + (IF Len(items) > 1 /\ Head(items).k # "htmlimg" THEN 2 ELSE 0)
       + BodyLen(Tail(items))

\* converter.js generateFrontmatter, the tags line
TagsLineIsPlaceholder(tags) == ~(Len(tags) > 0)

TagsLineLen(tags) ==
  IF TagsLineIsPlaceholder(tags) THEN 30     \* # tags: [] # No tags generated
  ELSE 8 + SumLen(tags) + 2 * Len(tags) + 2 * (Len(tags) - 1)

HeroLen(h) == IF h.kind = "unknown" THEN 13 ELSE 14 + Len(h.file)

\* converter.js generateFrontmatter: the length of the header block
FrontmatterLen(c) ==
  4 + (10 + Len(c.title)) + (11 + Len(c.author)) + (9 + Len(c.date))
    + (14 + HeroLen(c.heroImage)) + (TagsLineLen(c.tags) + 1) + 3

ContentLength(c) == FrontmatterLen(c) + 2 + BodyLen(c.body)

\* converter.js convertFile. readOk: fs.readFile of the source succeeds;
\* dirOk: the image directory can be listed.
convertFile(doc, readOk, localImages, dirOk) ==
  IF ~readOk
    THEN [ success |-> FALSE, error |-> "read error" ]
    ELSE
      LET metadata == extractMetadata(doc)
          content  == extractContent(doc)
          tags     == <<>>                 \* "Skip tag generation for now"
          pi       == processImages(extractImages(doc), localImages, dirOk)
          mdx      == convertContentToMDX(content, pi.processedImages, localImages, dirOk)
      IN  IF mdx.threw
            THEN [ success |-> FALSE, error |-> "image directory error" ]
            ELSE [ success  |-> TRUE,
                   filename |-> generateFilename(metadata.date, metadata.title),
                   content  |-> [ title     |-> metadata.title,
                                  author    |-> metadata.author,
                                  date      |-> metadata.date,
                                  heroImage |-> pi.heroImage,
                                  tags      |-> tags,
                                  body      |-> mdx.items ] ]

(***************************************************************************)
(* Tag generation (converter.js generateTags; convertFile does not call it)*)
(*                                                                         *)
(* The input is the sequence of tokens the tokenizer finds in the          *)
(* lower-cased text of the content. Words are sequences of characters.     *)
(***************************************************************************)
WordApi == <<"a","p","i">>

WordCode == <<"c","o","d","e">>

WordTest == <<"t","e","s","t">>

WordTesting == <<"t","e","s","t","i","n","g">>

WordJavascript == <<"j","a","v","a","s","c","r","i","p","t">>

WordProgramming == <<"p","r","o","g","r","a","m","m","i","n","g">>

WordProgramminging == WordProgramming \o <<"i","n","g">>

WordDevelopment == <<"d","e","v","e","l","o","p","m","e","n","t">>

WordSoftware == <<"s","o","f","t","w","a","r","e">>

WordTechnology == <<"t","e","c","h","n","o","l","o","g","y">>

WordEs2015 == <<"e","s","2","0","1","5">>

\* /^[a-zA-Z]+$/
IsAlpha(w) ==
  Len(w) > 0 /\ \A i \in DOMAIN w : w[i] \in LowerLetters \cup UpperLetters

\* this.techTerms, as far as the words of the model go
techTerms == { WordApi, WordCode, WordJavascript, WordProgramming,
               WordDevelopment, WordSoftware }

\* natural.PorterStemmer.stem on the tokens of the model (TokenWords): a
\* final "ing" after a vowel is removed ("testing" gives "test",
\* "programminging" gives "programming", which has no further suffix of the
\* stemmer's lists), "code" keeps its "e" (the stem
\* "cod" has measure 1 and ends consonant-vowel-consonant) and "javascript"
\* has no suffix the stemmer knows
stem(token) ==
  IF token = WordTesting THEN WordTest
  ELSE IF token = WordProgramminging THEN WordProgramming
  ELSE token

RECURSIVE Unique(_)
\* the distinct elements of a sequence in the order of their first occurrence
\* (the keys of wordCount, and filter(arr.indexOf(tag) === index))
Unique(s) ==
  IF s = <<>> THEN <<>>
  ELSE LET rest == Unique(SubSeq(s, 1, Len(s) - 1))
       IN  IF s[Len(s)] \in Range(rest) THEN rest ELSE rest \o << s[Len(s)] >>

\* slice(0, n)
Take(s, n) == SubSeq(s, 1, IF Len(s) < n THEN Len(s) ELSE n)

\* twice the score of a stem: its count, doubled for a tech term, times 1.5
\* when the stem is longer than 6 characters
Score2(word, stems) ==
  Cardinality({ i \in DOMAIN stems : stems[i] = word })
    * (IF word \in techTerms THEN 2 ELSE 1)
    * (IF Len(word) > 6 THEN 3 ELSE 2)

RECURSIVE SortByScore(_, _)
\* Array.prototype.sort((a, b) => b.score - a.score), which is stable
SortByScore(words, stems) ==
  IF words = <<>> THEN <<>>
  ELSE LET best == CHOOSE i \in DOMAIN words :
                     /\ \A j \in DOMAIN words :
                          Score2(words[j], stems) <= Score2(words[i], stems)
                     /\ \A j \in 1 .. (i - 1) :
                          Score2(words[j], stems) < Score2(words[i], stems)
       IN  << words[best] >>
           \o SortByScore(SubSeq(words, 1, best - 1)
                            \o SubSeq(words, best + 1, Len(words)), stems)

FallbackTags == << WordDevelopment, WordProgramming, WordSoftware >>

FailureTags == << WordDevelopment, WordProgramming, WordSoftware, WordTechnology >>

\* converter.js generateTags. threw: something inside the try block throws
\* (cheerio.load on a content that is not a string)
generateTags(tokens, threw) ==
  IF threw THEN FailureTags
  ELSE
    LET kept    == SelectSeq(tokens, LAMBDA w : Len(w) > 3 /\ IsAlpha(w))
        stems   == [ i \in DOMAIN kept |-> stem(kept[i]) ]
        ranked  == SortByScore(Unique(stems), stems)
        topTags == Take(Unique(Take(ranked, 8)), 5)
    IN  Take(IF Len(topTags) < 3 THEN topTags \o FallbackTags ELSE topTags, 5)

(***************************************************************************)
(* Validator (validator.js)                                                *)
(***************************************************************************)
MinBodyLength == 100

MaxFilenameLength == 100

\* /^\d{4}-\d{2}-\d{2}$/
IsIsoDate(d) ==
  /\ Len(d) = 10
  /\ \A i \in {1, 2, 3, 4, 6, 7, 9, 10} : d[i] \in Digits
  /\ d[5] = "-" /\ d[8] = "-"

\* validateStructure: the header of a printed record starts with "---" and
\* ends with "\n---\n"; what is left to check is the text after it
validateStructure(c) ==
  IF BodyLen(c.body) = 0 THEN {"No content after frontmatter"} ELSE {}

\* validateFrontmatter on the tags line of a header, by its form:
\*   "list"         tags: ["a", "b"]
\*   "placeholder"  # tags: [] # No tags generated
\*   "empty"        tags: []
\*   "blank"        tags: [ ]
\*   "absent"       no line that contains "tags:"
\* frontmatter.includes("tags:") finds the field in every form but the last;
\* /tags:\s*\[([^\]]+)\]/ needs a character between the brackets, so it
\* matches "list" and "blank" only, and only "blank" trims to nothing
TagsLineIssues(form) ==
  CASE form = "absent" -> {"Missing required field: tags"}
    [] form = "blank"  -> {"Empty tags array"}
    [] OTHER           -> {}

\* validateFrontmatter: every required field name followed by ":" occurs in
\* the header (the placeholder line "# tags: [] ..." contains "tags:" too),
\* the date must be YYYY-MM-DD, and a bracketed tag list must not be blank
validateFrontmatter(c) ==
  (IF ~IsIsoDate(c.date) THEN {"Invalid date format"} ELSE {})
  \cup TagsLineIssues(IF TagsLineIsPlaceholder(c.tags) THEN "placeholder" ELSE "list")

\* the four markdown patterns of validateContent over the rewritten body
HasMarkdown(items) ==
  \E i \in DOMAIN items :
     \/ items[i].k = "text" /\ items[i].md
     \/ items[i].k = "mdimg" /\ items[i].alt > 0

\* faulty variant: the length of the text is not checked
validateContent_NoLength(c) ==
  IF ~HasMarkdown(c.body) THEN {"No markdown elements detected"} ELSE {}

validateContent(c) ==
  (IF BodyLen(c.body) < MinBodyLength THEN {"Content too short"} ELSE {})
  \cup (IF ~HasMarkdown(c.body) THEN {"No markdown elements detected"} ELSE {})

\* validateImages: the src="..." attributes left in the text
validateImages(c, localImages, dirOk) ==
  LET srcs == { i \in DOMAIN c.body : c.body[i].k = "htmlimg" }
  IN  IF srcs = {} THEN {}
      ELSE IF ~dirOk THEN {"Image validation error"}
      ELSE (IF \E i \in srcs : c.body[i].host = "local" /\ c.body[i].file \notin localImages
              THEN {"Missing local image"} ELSE {})
           \cup (IF \E i \in srcs : c.body[i].host = "cdn"
              THEN {"Medium CDN URL not converted"} ELSE {})

\* /^\d{4}-\d{2}-\d{2}-[a-z0-9-]+\.mdx$/
MatchesNamingConvention(f) ==
  /\ Len(f) >= 16
  /\ IsIsoDate(SubSeq(f, 1, 10))
  /\ f[11] = "-"
  /\ SubSeq(f, Len(f) - 3, Len(f)) = MdxExt
  /\ \A i \in 12 .. (Len(f) - 4) : f[i] \in LowerLetters \cup Digits \cup {"-"}

validateFilename(f) ==
  (IF ~MatchesNamingConvention(f) THEN {"Invalid filename format"} ELSE {})
  \cup (IF Len(f) > MaxFilenameLength THEN {"Filename too long"} ELSE {})

\* validateFile: the issues of one file; readOk: fs.readFile succeeds
validateFile(f, c, readOk, localImages, dirOk) ==
  IF ~readOk THEN {"File read error"}
  ELSE validateStructure(c) \cup validateFrontmatter(c) \cup validateContent(c)
       \cup validateImages(c, localImages, dirOk) \cup validateFilename(f)

\* The text of a file of src/posts, by the form of its header block and the
\* record it prints: "ok" is what convertFile writes; "unterminated" is the
\* same text without the closing "---" line; "missing" is the body alone.
HeaderForms == { "ok", "unterminated", "missing" }

\* validateContent: content.indexOf('\n---\n') + 5 is the start of the text
\* that is measured, which is 4 when the header has no end; the length of
\* content.substring(contentStart).trim()
actualContentLength(form, c) ==
  CASE form = "ok" -> BodyLen(c.body)
    [] form = "unterminated" ->
         (FrontmatterLen(c) - 3 - 4)
           + (IF BodyLen(c.body) = 0 THEN 0 - 1 ELSE 2 + BodyLen(c.body))
    [] OTHER -> IF BodyLen(c.body) > 4 THEN BodyLen(c.body) - 4 ELSE 0

\* validateFile on a text of any header form
validateText(f, form, c, readOk, localImages, dirOk) ==
  IF ~readOk THEN {"File read error"}
  ELSE IF form = "ok" THEN validateFile(f, c, TRUE, localImages, dirOk)
  ELSE (IF form = "missing" THEN {"Missing frontmatter delimiter"} ELSE {})
       \cup {"Missing frontmatter end delimiter", "Invalid frontmatter format"}
       \cup (IF actualContentLength(form, c) < MinBodyLength
               THEN {"Content too short"} ELSE {})
       \cup (IF ~(HasMarkdown(c.body)
                  \/ (form = "unterminated" /\ TagsLineIsPlaceholder(c.tags)))
               THEN {"No markdown elements detected"} ELSE {})
       \cup validateImages(c, localImages, dirOk) \cup validateFilename(f)

(***************************************************************************)
(* Cleanup manager (cleanup.js)                                            *)
(***************************************************************************)
MinCleanupLength == 200

DraftPrefix == <<"d","r","a","f","t","_">>

DraftDefaultDate == <<"2","0","2","3","-","0","1","-","0","1">>

\* mapFilesToConverted, for one HTML file: the draft pattern
\* /^draft_(.+)-[a-f0-9]{12}\.html$/ is tried first, then
\* /^(\d{4}-\d{2}-\d{2})_(.+)-[a-f0-9]{12}\.html$/
MapFileToConverted(doc, mdxFiles) ==
  LET isDraft == doc.nameFmt = "draft" /\ Len(doc.nameTitle) >= 1
      isRegular == /\ doc.nameFmt = "regular"
                   /\ IsIsoDate(doc.nameDate)
                   /\ Len(doc.nameTitle) >= 1
      date == IF isDraft THEN DraftDefaultDate ELSE doc.nameDate
      expectedMDX == IF isDraft
                       THEN DraftPrefix \o slugify(doc.nameTitle) \o MdxExt
                       ELSE date \o <<"-">> \o slugify(doc.nameTitle) \o MdxExt
  IN  IF isDraft \/ isRegular
        THEN IF expectedMDX \in mdxFiles
               THEN [ canDelete |-> TRUE, mdxFile |-> expectedMDX, reason |-> "" ]
               ELSE [ canDelete |-> FALSE, mdxFile |-> <<>>,
                      reason |-> "No corresponding MDX file found" ]
        ELSE [ canDelete |-> FALSE, mdxFile |-> <<>>,
               reason |-> "Filename format not recognized" ]

\* validateMDXFiles, for one MDX file: a printed record starts with "---",
\* contains "\n---\n" and names title:, author:, date: and heroImage:, so
\* what decides is the read and the length of the whole text
ValidMDXFile(c, readOk) == readOk /\ ContentLength(c) > MinCleanupLength

\* faulty variant: only unreadable files count, the length check is lost
InvalidMDXFiles_ReadOnly(files, unreadable) ==
  { f \in DOMAIN files : f \in unreadable }

\* validateMDXFiles: the files counted invalid
InvalidMDXFiles(files, unreadable) ==
  { f \in DOMAIN files : ~ValidMDXFile(files[f], f \notin unreadable) }

\* faulty variant: the dryRun flag is not consulted
FilesToRemove_IgnoreDryRun(dryRun, invalid, canDelete) ==
  IF invalid # {} THEN {} ELSE canDelete

\* faulty variant: the early return on invalid MDX files is missing
FilesToRemove_IgnoreInvalid(dryRun, invalid, canDelete) ==
  IF ~dryRun THEN canDelete ELSE {}

\* performCleanup: the HTML files fs.remove is called on
FilesToRemove(dryRun, invalid, canDelete) ==
  IF invalid # {} THEN {}
  ELSE IF ~dryRun THEN canDelete
  ELSE {}

(***************************************************************************)
(* The documents of a run                                                  *)
(***************************************************************************)
NumSources == 2

Sources == 1 .. NumSources

\* the files of public/images/posts during the batch runs
LocalImages == {"a.png"}

Date1 == <<"2","0","2","3","-","0","9","-","1","3">>

Date2 == <<"2","0","1","9","-","0","1","-","2","3">>

AuthorAl == <<"A","l">>

Para(plain, bold) == [ k |-> "p", plain |-> plain, bold |-> bold ]

Image(host, file, fig, alt) ==
  [ k |-> "img", host |-> host, file |-> file, fig |-> fig, alt |-> alt ]

Figure(imgs) == [ k |-> "figs", imgs |-> imgs ]

Document(fmt, nameDate, nameTitle, title, datetime, hasSection, body) ==
  [ nameFmt |-> fmt, nameDate |-> nameDate, nameTitle |-> nameTitle,
    title |-> title, author |-> AuthorAl, datetime |-> datetime,
    hasSection |-> hasSection, body |-> body ]

\* a timestamp new Date() can parse, by its UTC calendar date
ValidTime(y, m, d) == [ kind |-> "valid", year |-> y, month |-> m, day |-> d ]

\* a datetime attribute that is absent ("missing") or unparseable ("invalid")
NoTime(kind) == [ kind |-> kind, year |-> 0, month |-> 0, day |-> 0 ]

\* a well-formed article
DocGood ==
  Document("regular", Date1, <<"F","o","o","-","B","a","r">>,
           <<"F","o","o"," ","B","a","r">>, ValidTime(2023, 9, 13), TRUE,
           << Para(120, 5) >>)

\* another article with the same title and date, and another, shorter text
DocTwin ==
  Document("regular", Date1, <<"F","o","o","-","B","a","r">>,
           <<"F","o","o"," ","B","a","r">>, ValidTime(2023, 9, 13), TRUE,
           << Para(90, 0) >>)

\* a file of the import directory that is not an export: no content
\* section, an unparseable timestamp
DocEmpty ==
  Document("other", <<>>, <<>>,
           <<" ","N","o","n","e"," ">>, NoTime("invalid"),
           FALSE, << Para(120, 5) >>)

\* a draft: no timestamp, no title element
DocDraft ==
  Document("draft", <<>>, <<"I","d","e","a">>,
           <<>>, NoTime("missing"), TRUE,
           << Para(100, 0), Para(30, 3) >>)

\* an article with a figure that resolves locally and an image that does not
DocImages ==
  Document("regular", Date2, <<"P","i","c","s">>,
           <<"P","i","c","s">>, ValidTime(2019, 1, 23), TRUE,
           << Image("cdn", "a.png", TRUE, 3), Para(110, 0),
              Image("cdn", "b.png", FALSE, 0) >>)

DocPool == { DocGood, DocTwin, DocEmpty, DocDraft, DocImages }

(***************************************************************************)
(* State                                                                   *)
(***************************************************************************)
VARIABLES
  docs,       \* the source document behind each HTML file name (never changes)
  importDir,  \* the HTML files present in import/
  posts,      \* src/posts: file name -> text of the MDX file
  run,        \* the batch run in progress or last finished
  ret,        \* what the last operation returned or reported
  imagesDir   \* the files of public/images/posts

vars == << docs, importDir, posts, run, ret, imagesDir >>

IdleRun ==
  [ pc |-> "idle", mode |-> "none", files |-> <<>>, existing |-> {}, i |-> 0,
    successCount |-> 0, skipCount |-> 0, errorCount |-> 0,
    results |-> <<>>, errors |-> <<>>, saved |-> <<>>,
    calls |-> [ s \in Sources |-> 0 ] ]

Init ==
  /\ docs \in [ Sources -> DocPool ]
  /\ importDir = Sources
  /\ posts = << >>
  /\ run = IdleRun
  /\ ret = [ op |-> "none" ]
  /\ imagesDir = LocalImages

RECURSIVE SortedSeq(_)
\* fs.readdir: the names of a directory, in directory order
SortedSeq(S) ==
  IF S = {} THEN <<>>
  ELSE LET m == CHOOSE x \in S : \A y \in S : x <= y
       IN  <<m>> \o SortedSeq(S \ {m})

\* fs.writeFile(path, content): the directory after the write
WriteFile(dir, f, c) ==
  [ g \in DOMAIN dir \cup {f} |-> IF g = f THEN c ELSE dir[g] ]

(***************************************************************************)
(* Batch driver (convertAll.js) and convertMultipleFiles                   *)
(***************************************************************************)
DefaultCount == 3

\* parser.getAllHTMLFiles: the catch turns a failed readdir into []
getAllHTMLFiles(dir, inOk) == IF inOk THEN SortedSeq(dir) ELSE <<>>

\* convertAll.js: existingMDX.includes(result.filename)
AlreadyExists(existingMDX, filename) == filename \in existingMDX

\* faulty variant: a failed document is tried again
NextIndex_RetryFailed(i, success) == IF success THEN i + 1 ELSE i

\* the for loops' i++ / next file, whatever the result was
NextIndex(i, success) == i + 1

Running == run.pc = "loop"

\* convertAllFiles up to the loop: list import/, list src/posts (a failure
\* there is rethrown by the outer catch)
StartConvertAll ==
  /\ ~Running
  /\ \E inOk, outOk \in BOOLEAN :
       LET htmlFiles == getAllHTMLFiles(importDir, inOk)
       IN  IF outOk
             THEN /\ run' = [ IdleRun EXCEPT !.pc = "loop", !.mode = "all",
                                !.files = htmlFiles, !.existing = DOMAIN posts ]
                  /\ ret' = [ op |-> "start", found |-> Len(htmlFiles) ]
             ELSE /\ run' = IdleRun
                  /\ ret' = [ op |-> "threw", cause |-> "output directory",
                              files |-> htmlFiles, calls |-> IdleRun.calls ]
  /\ UNCHANGED << docs, imagesDir, importDir, posts >>

\* one call of saveMDXFile, as the run's log shows it
Saved(s, result) ==
  [ src |-> s, filename |-> result.filename, content |-> result.content ]

\* the outcomes of listing the image directory that a conversion can tell apart
DirOutcomes(doc) == IF extractImages(doc) = <<>> THEN {TRUE} ELSE BOOLEAN

\* one iteration of convertAllFiles' loop
ConvertAllStep ==
  /\ Running /\ run.mode = "all" /\ run.i < Len(run.files)
  /\ LET s      == run.files[run.i + 1]
         called == [ run EXCEPT !.calls[s] = @ + 1 ]
     IN  \E readOk \in BOOLEAN :
         \E dirOk \in IF readOk THEN DirOutcomes(docs[s]) ELSE {TRUE} :
           LET result == convertFile(docs[s], readOk, imagesDir, dirOk)
           IN  IF result.success
                 THEN IF AlreadyExists(run.existing, result.filename)
                        THEN /\ run' = [ called EXCEPT !.skipCount = @ + 1,
                                           !.results = Append(@, s),
                                           !.i = NextIndex(@, TRUE) ]
                             /\ posts' = posts
                             /\ ret' = [ op |-> "convert", src |-> s,
                                         outcome |-> "skipped",
                                         filename |-> result.filename ]
                        ELSE \E writeOk \in BOOLEAN :
                               IF writeOk
                                 THEN /\ run' = [ called EXCEPT !.successCount = @ + 1,
                                                    !.results = Append(@, s),
                                                    !.saved = Append(@, Saved(s, result)),
                                                    !.i = NextIndex(@, TRUE) ]
                                      /\ posts' = WriteFile(posts, result.filename,
                                                            result.content)
                                      /\ ret' = [ op |-> "convert", src |-> s,
                                                  outcome |-> "saved",
                                                  filename |-> result.filename ]
                                 ELSE \* saveMDXFile rejects: nothing catches it
                                      \* inside the loop, the outer catch rethrows
                                      /\ run' = IdleRun
                                      /\ posts' = posts
                                      /\ ret' = [ op |-> "threw", cause |-> "write",
                                                  src |-> s, files |-> run.files,
                                                  calls |-> called.calls,
                                                  errors |-> run.errors ]
                 ELSE /\ run' = [ called EXCEPT !.errorCount = @ + 1,
                                    !.errors = Append(@, << s, result.error >>),
                                    !.i = NextIndex(@, FALSE) ]
                      /\ posts' = posts
                      /\ ret' = [ op |-> "convert", src |-> s, outcome |-> "failed",
                                  error |-> result.error ]
  /\ UNCHANGED << docs, imagesDir, importDir >>

\* the summary convertAllFiles prints after the loop
ConvertAllFinish ==
  /\ Running /\ run.mode = "all" /\ run.i >= Len(run.files)
  /\ run' = IdleRun
  /\ ret' = [ op |-> "summary", converted |-> run.successCount,
              skipped |-> run.skipCount, failed |-> run.errorCount,
              totalNow |-> run.successCount + Cardinality(run.existing),
              files |-> run.files, calls |-> run.calls,
              results |-> run.results, errors |-> run.errors,
              saved |-> run.saved ]
  /\ UNCHANGED << docs, imagesDir, importDir, posts >>

\* convertMultipleFiles(count) up to the loop
StartConvertMultiple ==
  /\ ~Running
  /\ \E inOk \in BOOLEAN, count \in 1 .. DefaultCount :
       LET htmlFiles == getAllHTMLFiles(importDir, inOk)
           toConvert == SubSeq(htmlFiles, 1, IF count < Len(htmlFiles)
                                               THEN count ELSE Len(htmlFiles))
       IN  /\ run' = [ IdleRun EXCEPT !.pc = "loop", !.mode = "multiple",
                         !.files = toConvert ]
           /\ ret' = [ op |-> "start", found |-> Len(toConvert) ]
  /\ UNCHANGED << docs, imagesDir, importDir, posts >>

\* one iteration of convertMultipleFiles' loop: every success is saved
ConvertMultipleStep ==
  /\ Running /\ run.mode = "multiple" /\ run.i < Len(run.files)
  /\ LET s      == run.files[run.i + 1]
         called == [ run EXCEPT !.calls[s] = @ + 1 ]
     IN  \E readOk \in BOOLEAN :
         \E dirOk \in IF readOk THEN DirOutcomes(docs[s]) ELSE {TRUE} :
           LET result == convertFile(docs[s], readOk, imagesDir, dirOk)
           IN  IF result.success
                 THEN \E writeOk \in BOOLEAN :
                        IF writeOk
                          THEN /\ run' = [ called EXCEPT !.successCount = @ + 1,
                                             !.results = Append(@, s),
                                             !.saved = Append(@, Saved(s, result)),
                                             !.i = NextIndex(@, TRUE) ]
                               /\ posts' = WriteFile(posts, result.filename,
                                                     result.content)
                               /\ ret' = [ op |-> "convert", src |-> s,
                                           outcome |-> "saved",
                                           filename |-> result.filename ]
                          ELSE /\ run' = IdleRun
                               /\ posts' = posts
                               /\ ret' = [ op |-> "threw", cause |-> "write",
                                           src |-> s, files |-> run.files,
                                           calls |-> called.calls,
                                           errors |-> run.errors ]
                 ELSE /\ run' = [ called EXCEPT !.errorCount = @ + 1,
                                    !.errors = Append(@, << s, result.error >>),
                                    !.i = NextIndex(@, FALSE) ]
                      /\ posts' = posts
                      /\ ret' = [ op |-> "convert", src |-> s, outcome |-> "failed",
                                  error |-> result.error ]
  /\ UNCHANGED << docs, imagesDir, importDir >>

ConvertMultipleFinish ==
  /\ Running /\ run.mode = "multiple" /\ run.i >= Len(run.files)
  /\ run' = IdleRun
  /\ ret' = [ op |-> "results", files |-> run.files, calls |-> run.calls,
              results |-> run.results, errors |-> run.errors,
              saved |-> run.saved ]
  /\ UNCHANGED << docs, imagesDir, importDir, posts >>

(***************************************************************************)
(* Validator and cleanup runs                                              *)
(***************************************************************************)
\* the files one run fails to read or to remove: none, or one of them
AtMostOne(S) == {{}} \cup { {x} : x \in S }

\* getMDXFiles / getConvertedFiles: the catch turns a failed readdir into []
getMDXFiles(dir, outOk) == IF outOk THEN DOMAIN dir ELSE {}

\* validator.js validateAllFiles
ValidateAllFiles ==
  /\ ~Running
  /\ \E outOk, dirOk \in BOOLEAN :
       LET files == getMDXFiles(posts, outOk)
       IN  \E unreadable \in AtMostOne(files) :
             LET failed == { f \in files :
                               validateFile(f, posts[f], f \notin unreadable,
                                            imagesDir, dirOk) # {} }
             IN  ret' = [ op |-> "validate", total |-> Cardinality(files),
                          passed |-> Cardinality(files \ failed),
                          failed |-> Cardinality(failed), issues |-> failed ]
  /\ UNCHANGED << docs, imagesDir, importDir, posts, run >>

\* cleanup.js performCleanup(dryRun); stuck: the files fs.remove fails on
PerformCleanup ==
  /\ ~Running
  /\ \E dryRun, inOk, outOk \in BOOLEAN :
       LET htmlFiles == IF inOk THEN importDir ELSE {}
           mdxFiles  == getMDXFiles(posts, outOk)
           canDelete == { s \in htmlFiles :
                            MapFileToConverted(docs[s], mdxFiles).canDelete }
       IN  \E unreadable \in AtMostOne(mdxFiles) :
             LET invalid  == InvalidMDXFiles([ f \in mdxFiles |-> posts[f] ], unreadable)
                 toRemove == FilesToRemove(dryRun, invalid, canDelete)
             IN  \E stuck \in AtMostOne(toRemove) :
                   /\ importDir' = importDir \ (toRemove \ stuck)
                   /\ ret' = IF invalid # {}
                        THEN [ op |-> "cleanup", dryRun |-> dryRun, success |-> FALSE,
                               reason |-> "Invalid MDX files found",
                               listed |-> mdxFiles, unreadable |-> unreadable,
                               deleted |-> toRemove \ stuck ]
                        ELSE [ op |-> "cleanup", dryRun |-> dryRun, success |-> TRUE,
                               canDelete |-> Cardinality(canDelete),
                               cannotDelete |-> Cardinality(htmlFiles \ canDelete),
                               listed |-> mdxFiles, unreadable |-> unreadable,
                               deleted |-> toRemove \ stuck ]
  /\ UNCHANGED << docs, imagesDir, posts, run >>

Next ==
  \/ StartConvertAll
  \/ ConvertAllStep
  \/ ConvertAllFinish
  \/ StartConvertMultiple
  \/ ConvertMultipleStep
  \/ ConvertMultipleFinish
  \/ ValidateAllFiles
  \/ PerformCleanup

Spec == Init /\ [][Next]_vars

(***************************************************************************)
(* Calls of the parser, the converter and the validator on one document    *)
(***************************************************************************)
TestPost == <<"T","e","s","t"," ","P","o","s","t">>

AAuthor == <<"A","."," ","A","u","t","h","o","r">>

Hello == <<"H","e","l","l","o"," ">>

World == <<"w","o","r","l","d">>

\* the minimal document: title "Test Post", author "A. Author", timestamp
\* 2023-09-13T00:00:00Z, a figure with one image, <p>Hello <strong>world</strong></p>
DocMinimal ==
  [ Document("regular", Date1, <<"T","e","s","t","-","P","o","s","t">>,
             TestPost, ValidTime(2023, 9, 13), TRUE,
             << Image("cdn", "a.png", TRUE, 0), Para(Len(Hello), Len(World)) >>)
    EXCEPT !.author = AAuthor ]

\* no author element, and an author element with white space only
DocNoAuthor == [ DocGood EXCEPT !.author = <<>> ]

DocBlankAuthor == [ DocGood EXCEPT !.author = <<" ", "\t", " ">> ]

\* a timestamp with an expanded year, +012023-09-13T00:00:00.000Z
DocFarFuture == [ DocGood EXCEPT !.datetime = ValidTime(12023, 9, 13) ]

\* two figures whose images have different sources and the same file name
DocSameFile ==
  Document("regular", Date2, <<"S","a","m","e">>, <<"S","a","m","e">>,
           ValidTime(2019, 1, 23), TRUE,
           << Image("cdn", "a.png", TRUE, 0), Para(110, 3),
              Image("other", "a.png", TRUE, 2) >>)

\* a figure that holds two images, after a text
DocGallery ==
  Document("regular", Date2, <<"G","r","i","d">>, <<"G","r","i","d">>,
           ValidTime(2019, 1, 23), TRUE,
           << Para(110, 3),
              Figure(<< Image("other", "a.png", TRUE, 0),
                        Image("other", "b.png", TRUE, 0) >>) >>)

CallPool == { DocGood, DocEmpty, DocDraft, DocImages, DocMinimal, DocNoAuthor,
              DocBlankAuthor, DocFarFuture, DocSameFile, DocGallery }

\* the files public/images/posts may hold
ImageFiles == { "a.png", "b.png" }

InitCalls ==
  /\ docs \in [ {1} -> CallPool ]
  /\ importDir = {1}
  /\ posts = << >>
  /\ run = IdleRun
  /\ ret = [ op |-> "none" ]
  /\ imagesDir \in SUBSET ImageFiles

CallExtractMetadata ==
  /\ ret' = [ op |-> "extractMetadata", out |-> extractMetadata(docs[1]) ]
  /\ UNCHANGED << docs, imagesDir, importDir, posts, run >>

CallProcessImages ==
  /\ \E dirOk \in BOOLEAN :
       LET images == extractImages(docs[1])
       IN  /\ ret' = [ op |-> "processImages", images |-> images,
                       local |-> imagesDir, dirOk |-> dirOk,
                       out |-> processImages(images, imagesDir, dirOk) ]
           /\ imagesDir' = IF dirOk THEN imagesDirAfter(imagesDir, images)
                           ELSE imagesDir
  /\ UNCHANGED << docs, importDir, posts, run >>

CallConvertFile ==
  /\ \E readOk \in BOOLEAN, dirOk \in BOOLEAN :
       ret' = [ op |-> "convertFile", readOk |-> readOk, dirOk |-> dirOk,
                local |-> imagesDir,
                out |-> convertFile(docs[1], readOk, imagesDir, dirOk) ]
  /\ UNCHANGED << docs, imagesDir, importDir, posts, run >>

\* validateFile on the text convertFile produced last, or on that text with
\* a damaged header
CallValidateFile ==
  /\ ret.op = "convertFile" /\ ret.out.success
  /\ \E form \in HeaderForms, readOk \in BOOLEAN, dirOk \in BOOLEAN :
       ret' = [ op |-> "validateFile", form |-> form, readOk |-> readOk,
                dirOk |-> dirOk, local |-> imagesDir,
                filename |-> ret.out.filename, content |-> ret.out.content,
                issues |-> validateText(ret.out.filename, form, ret.out.content,
                                        readOk, imagesDir, dirOk) ]
  /\ UNCHANGED << docs, imagesDir, importDir, posts, run >>

NextCalls ==
  \/ CallExtractMetadata
  \/ CallProcessImages
  \/ CallConvertFile
  \/ CallValidateFile

SpecCalls == InitCalls /\ [][NextCalls]_vars

(***************************************************************************)
(* Calls of generateTags on their own                                      *)
(***************************************************************************)
MaxTokens == 3

\* the tokens a text of the model is made of
TokenWords == { WordApi, WordCode, WordTesting, WordJavascript,
                WordProgramminging, WordEs2015 }

TokenSeqs == UNION { [ 1 .. n -> TokenWords ] : n \in 0 .. MaxTokens }

InitTags ==
  /\ docs = [ s \in {1} |-> DocGood ]
  /\ importDir = {1}
  /\ posts = << >>
  /\ run = IdleRun
  /\ ret = [ op |-> "none" ]
  /\ imagesDir = LocalImages

CallGenerateTags ==
  /\ \E tokens \in TokenSeqs, threw \in BOOLEAN :
       ret' = [ op |-> "generateTags", tokens |-> tokens, threw |-> threw,
                out |-> generateTags(tokens, threw) ]
  /\ UNCHANGED << docs, imagesDir, importDir, posts, run >>

NextTags == CallGenerateTags

SpecTags == InitTags /\ [][NextTags]_vars

(***************************************************************************)
(* Validation of a record some time after its conversion: files of         *)
(* public/images/posts may have been removed in between                    *)
(***************************************************************************)
InitValidate ==
  /\ docs \in [ {1} -> { DocGood, DocImages, DocMinimal, DocSameFile, DocGallery } ]
  /\ importDir = {1}
  /\ posts = << >>
  /\ run = IdleRun
  /\ ret = [ op |-> "none" ]
  /\ imagesDir \in SUBSET ImageFiles

\* a file of public/images/posts is removed (the directory is not under the
\* toolchain's control; "Missing local image" is the validator's word for it)
RemoveImageFile ==
  /\ \E f \in imagesDir : imagesDir' = imagesDir \ {f}
  /\ UNCHANGED << docs, importDir, posts, run, ret >>

NextValidate ==
  \/ CallConvertFile
  \/ RemoveImageFile
  \/ CallValidateFile

SpecValidate == InitValidate /\ [][NextValidate]_vars

(***************************************************************************)
(* Calls of generateFilename on their own                                  *)
(***************************************************************************)
MaxTitleLen == 3

\* the titles of the model, by the characters they are made of
Titles == UNION { [ 1 .. n -> { "a", "B", "2", ".", " ", "&" } ] : n \in 0 .. MaxTitleLen }

\* the title argument of a call is held as the title of the document
InitFilename ==
  /\ docs \in [ {1} -> { [ DocGood EXCEPT !.title = title ] : title \in Titles } ]
  /\ importDir = {1}
  /\ posts = << >>
  /\ run = IdleRun
  /\ ret = [ op |-> "none" ]
  /\ imagesDir = LocalImages

CallGenerateFilename ==
  /\ \E date \in { Date1, UnknownDate } :
       ret' = [ op |-> "generateFilename", date |-> date, title |-> docs[1].title,
                out |-> generateFilename(date, docs[1].title) ]
  /\ UNCHANGED << docs, imagesDir, importDir, posts, run >>

NextFilename == CallGenerateFilename

SpecFilename == InitFilename /\ [][NextFilename]_vars

(***************************************************************************)
(* The rewriter on the text of a body (converter.js convertContentToMDX    *)
(* without images)                                                         *)
(*                                                                         *)
(* A body is a sequence of blocks whose text is a sequence of characters:  *)
(*   [k |-> "p", elems]  a paragraph of text runs [k |-> "t", s] and       *)
(*        links [k |-> "a", t, h] (text t, href h)                         *)
(*   [k |-> "h", level, text]  a heading h1 .. h6                          *)
(*   [k |-> "pre", code, franc]  <pre><code>code</code></pre>, with what   *)
(*        franc(code) returns, or "throws"                                 *)
(* The texts hold none of the characters & < > that the serializer         *)
(* escapes and cleanHTMLText decodes again.                                *)
(***************************************************************************)
\* String.prototype.repeat on one character
Repeat(c, n) == [ i \in 1 .. n |-> c ]

\* "Likely a title": headings under this length are removed
TitleLikeLength == 100

\* detectLanguage's languageMap
languageMap ==
  ("js" :> "javascript") @@ ("py" :> "python") @@ ("java" :> "java")
  @@ ("cpp" :> "cpp") @@ ("cs" :> "csharp") @@ ("rb" :> "ruby")
  @@ ("php" :> "php") @@ ("go" :> "go") @@ ("rs" :> "rust")
  @@ ("swift" :> "swift") @@ ("kt" :> "kotlin") @@ ("sql" :> "sql")
  @@ ("html" :> "html") @@ ("css" :> "css") @@ ("json" :> "json")
  @@ ("xml" :> "xml") @@ ("yaml" :> "yaml") @@ ("md" :> "markdown")

\* detectLanguage: languageMap[detected] || 'text', and 'text' from the catch
detectLanguage(franc) ==
  IF franc = "throws" THEN "text"
  ELSE IF franc \in DOMAIN languageMap THEN languageMap[franc]
  ELSE "text"

\* the three backquotes of a code fence, as one element of the text
Fence == << "<fence>" >>

\* what one block has become when the document is serialized
BlockMarkdown(b) ==
  IF b.k = "p"
    THEN \* convertHTMLToMarkdown: a link becomes [text](href) with a space on
         \* each side; cleanupHTMLStructure: the paragraph, which holds no a
         \* element any more, becomes its trimmed text and a blank line
         LET link(e) == <<" ", "[">> \o e.t \o <<"]", "(">> \o e.h \o <<")", " ">>
             text == Trim(Flatten([ i \in DOMAIN b.elems |->
                       IF b.elems[i].k = "a" THEN link(b.elems[i])
                       ELSE b.elems[i].s ]))
         IN  IF text = <<>> THEN <<>> ELSE text \o <<"\n", "\n">>
  ELSE IF b.k = "h"
    THEN \* convertContentToMDX: $('h1, h2, h3') with a short trimmed text is
         \* removed; convertHTMLToMarkdown: h3 .. h6 get their "#" prefix;
         \* cleanupHTMLStructure: other headings become their trimmed text
         IF b.level <= 3 /\ Len(Trim(b.text)) < TitleLikeLength THEN <<>>
         ELSE IF b.level >= 3
           THEN Repeat("#", b.level) \o <<" ">> \o b.text \o <<"\n">>
         ELSE <<"\n", "\n">> \o Trim(b.text) \o <<"\n", "\n">>
  ELSE \* convertCodeBlocks: the code element becomes a fenced block (the
       \* language name is one element of the text); the pre element stays
       <<"<pre>">> \o Fence \o << detectLanguage(b.franc), "\n" >> \o b.code
         \o <<"\n">> \o Fence \o <<"\n", "</pre>">>

\* converter.js cleanHTMLText on a text without entities and emojis
cleanHTMLText(html) ==
  LET \* the elements of put at the positions where keep holds, in order
      Rebuild(keep, put) ==
        LET tagged == [ i \in DOMAIN put |-> << keep[i], put[i] >> ]
            left   == SelectSeq(tagged, LAMBDA p : p[1])
        IN  [ i \in DOMAIN left |-> left[i][2] ]
      \* the matches of /\]\([^)]+\)\s*X/ in s, X one character of follow:
      \* pairs << p, k >> where "](" stands at p, the first ")" after it
      \* closes one character or more, and the first character after the
      \* white space that follows, at k, is in follow
      TargetSpans(s, follow) ==
        LET opens == { p \in 1 .. (Len(s) - 1) : s[p] = "]" /\ s[p + 1] = "(" }
            close(p) == { j \in (p + 2) .. Len(s) :
                            s[j] = ")" /\ \A i \in (p + 2) .. (j - 1) : s[i] # ")" }
            after(j) == { k \in (j + 1) .. Len(s) :
                            ~IsSpace(s[k]) /\ \A i \in (j + 1) .. (k - 1) : IsSpace(s[i]) }
        IN  { sp \in UNION { UNION { { << p, k >> : k \in after(j) } : j \in close(p) } :
                             p \in opens } :
                /\ \A j \in close(sp[1]) : j >= sp[1] + 3
                /\ s[sp[2]] \in follow }
      \* replace(/\]\([^)]+\)\s*X/g, ']\nX'): of every match the "]" and the
      \* character X stay, and what stands between them becomes one newline
      DropTargets(s, follow) ==
        LET spans == TargetSpans(s, follow)
            inside(i) == \E sp \in spans : sp[1] < i /\ i < sp[2]
            opens(i)  == \E sp \in spans : sp[1] + 1 = i /\ ~inside(sp[1])
        IN  Rebuild([ i \in DOMAIN s |-> ~inside(i) \/ opens(i) ],
                    [ i \in DOMAIN s |-> IF opens(i) THEN "\n" ELSE s[i] ])
      \* replace(/[ \t]+/g, ' ')
      SquashBlanks(s) ==
        Rebuild([ i \in DOMAIN s |->
                    ~(i > 1 /\ s[i] \in {" ", "\t"} /\ s[i - 1] \in {" ", "\t"}) ],
                [ i \in DOMAIN s |-> IF s[i] = "\t" THEN " " ELSE s[i] ])
      \* replace(/\n{3,}/g, '\n\n'): of a run of newlines the first two stay
      CollapseNewlines(s) ==
        Rebuild([ i \in DOMAIN s |->
                    ~(i > 2 /\ s[i] = "\n" /\ s[i - 1] = "\n" /\ s[i - 2] = "\n") ],
                s)
  IN  Trim(CollapseNewlines(SquashBlanks(
        DropTargets(DropTargets(html, {"["}), LowerLetters \cup UpperLetters))))

\* converter.js convertContentToMDX on a body of text blocks: the string it
\* returns
convertContentText(blocks) ==
  cleanHTMLText(Flatten([ i \in DOMAIN blocks |-> BlockMarkdown(blocks[i]) ]))

MaxBlocks == 2

\* the blocks of the bodies of the model: paragraphs with a link followed by
\* a word, by another link and by a full stop, and without a link; code on
\* one line, and code with an indented line and two blank lines; short and
\* long headings
BlockPool ==
  LET Txt(s) == [ k |-> "t", s |-> s ]
      Link(t, h) == [ k |-> "a", t |-> t, h |-> h ]
      TextPara(elems) == [ k |-> "p", elems |-> elems ]
      CodeBlock(code, franc) == [ k |-> "pre", code |-> code, franc |-> franc ]
      Heading(level, text) == [ k |-> "h", level |-> level, text |-> text ]
      CodeLine == <<"a","=","1">>
      CodeIndented == <<"i","f",":","\n"," "," "," "," ","y","\n","\n","\n","z">>
  IN  { TextPara(<< Txt(<<"s","e","e"," ">>), Link(<<"t">>, <<"h">>),
                    Txt(<<" ","n","o","w">>) >>),
        TextPara(<< Link(<<"t">>, <<"h">>), Link(<<"u">>, <<"g">>) >>),
        TextPara(<< Txt(<<"s","e","e"," ">>), Link(<<"t">>, <<"h">>), Txt(<<".">>) >>),
        TextPara(<< Txt(<<"1","."," ","g","o">>) >>),
        CodeBlock(CodeLine, "und"), CodeBlock(CodeLine, "throws"),
        CodeBlock(CodeIndented, "css") }
      \cup { Heading(l, <<"H", "i">>) : l \in 1 .. 6 }
      \cup { Heading(l, Repeat("x", TitleLikeLength)) : l \in 1 .. 3 }

Bodies == UNION { [ 1 .. n -> BlockPool ] : n \in 1 .. MaxBlocks }

\* a document whose content section holds the blocks of a body
InitRewrite ==
  /\ docs \in [ {1} -> { [ DocGood EXCEPT !.body = body ] : body \in Bodies } ]
  /\ importDir = {1}
  /\ posts = << >>
  /\ run = IdleRun
  /\ ret = [ op |-> "none" ]
  /\ imagesDir = LocalImages

CallConvertContent ==
  /\ ret' = [ op |-> "convertContentToMDX", body |-> docs[1].body,
              out |-> convertContentText(extractContent(docs[1])) ]
  /\ UNCHANGED << docs, imagesDir, importDir, posts, run >>

NextRewrite == CallConvertContent

SpecRewrite == InitRewrite /\ [][NextRewrite]_vars

(***************************************************************************)
(* The site's post list (src/utils/posts.ts)                               *)
(***************************************************************************)
\* posts.ts getSlugFromFilename
getSlugFromFilename(filename) ==
  LET \* filename.split('/').pop()
      slashes == { i \in DOMAIN filename : filename[i] = "/" }
      last == IF slashes = {} THEN 0
              ELSE CHOOSE i \in slashes : \A j \in slashes : j <= i
      name == SubSeq(filename, last + 1, Len(filename))
      \* replace('.mdx', ''): the first occurrence is removed
      at == { i \in 1 .. (Len(name) - 3) : SubSeq(name, i, i + 3) = MdxExt }
      first == IF at = {} THEN 0 ELSE CHOOSE i \in at : \A j \in at : i <= j
      basename == IF at = {} THEN name
                  ELSE SubSeq(name, 1, first - 1) \o SubSeq(name, first + 4, Len(name))
      \* /^\d{4}-\d{2}-\d{2}-/
      dated == /\ Len(basename) >= 11 /\ IsIsoDate(SubSeq(basename, 1, 10))
               /\ basename[11] = "-"
  IN  IF dated THEN SubSeq(basename, 12, Len(basename)) ELSE basename

\* the keys of import.meta.glob('/src/posts/*.mdx'): the files by name.
\* a < b for two names is decided by the first position where they differ,
\* or by their lengths when one is the start of the other
NameOrder(S) ==
  LET chars == <<"-", ".">> \o DigitSeq \o LowerSeq     \* in code-unit order
      rank(c) == CHOOSE i \in DOMAIN chars : chars[i] = c
      less(a, b) ==
        LET common == IF Len(a) < Len(b) THEN Len(a) ELSE Len(b)
            differ == { i \in 1 .. common : a[i] # b[i] }
        IN  IF differ = {} THEN Len(a) < Len(b)
            ELSE LET i == CHOOSE i \in differ : \A j \in differ : i <= j
                 IN  rank(a[i]) < rank(b[i])
      place == [ x \in S |-> Cardinality({ y \in S : less(y, x) }) + 1 ]
  IN  [ k \in 1 .. Cardinality(S) |-> CHOOSE x \in S : place[x] = k ]

\* postList.sort((a, b) => dateB.getTime() - dateA.getTime()), which is
\* stable: a post comes after those with a later date and after those with
\* its date that stood before it
SortNewestFirst(list) ==
  LET digit(c) == (CHOOSE i \in DOMAIN DigitSeq : DigitSeq[i] = c) - 1
      \* new Date("YYYY-MM-DD").getTime(), up to a monotone scale
      time(d) == (digit(d[1]) * 1000 + digit(d[2]) * 100 + digit(d[3]) * 10
                    + digit(d[4])) * 10000
                 + (digit(d[6]) * 10 + digit(d[7])) * 100
                 + (digit(d[9]) * 10 + digit(d[10]))
      key   == [ i \in DOMAIN list |-> time(list[i].frontmatter.date) ]
      place == [ i \in DOMAIN list |->
                   Cardinality({ j \in DOMAIN list :
                                   key[j] > key[i] \/ (key[j] = key[i] /\ j < i) }) + 1 ]
  IN  [ k \in DOMAIN list |-> list[CHOOSE i \in DOMAIN list : place[i] = k] ]

\* posts.ts getAllPosts over the files of src/posts (their dates are of the
\* form YYYY-MM-DD; Content and excerpt are left out)
getAllPosts(dir) ==
  LET files == NameOrder(DOMAIN dir)
  IN  SortNewestFirst(
        [ i \in DOMAIN files |->
            LET slug == getSlugFromFilename(
                          <<"/","s","r","c","/","p","o","s","t","s","/">> \o files[i])
            IN  [ file |-> files[i], frontmatter |-> dir[files[i]],
                  slug |-> slug,
                  url |-> <<"/","p","o","s","t","s","/">> \o slug ] ])

DefaultPerPage == 20

\* Math.ceil(n / p) for n >= 0 and p >= 1
Ceil(n, p) == (n + p - 1) \div p

\* Array.prototype.slice(start, end) for 0 <= start <= end
Slice(s, start, end) ==
  IF start >= Len(s) THEN <<>>
  ELSE SubSeq(s, start + 1, IF end < Len(s) THEN end ELSE Len(s))

\* faulty variant: the end index of the slice is one too far
paginatePosts_LongPage(list, page, postsPerPage) ==
  LET startIndex == (page - 1) * postsPerPage
      endIndex   == startIndex + postsPerPage + 1
      totalPages == Ceil(Len(list), postsPerPage)
  IN  [ posts |-> Slice(list, startIndex, endIndex),
        currentPage |-> page, totalPages |-> totalPages,
        hasNextPage |-> page < totalPages, hasPrevPage |-> page > 1 ]

\* posts.ts paginatePosts
paginatePosts(list, page, postsPerPage) ==
  LET startIndex == (page - 1) * postsPerPage
      endIndex   == startIndex + postsPerPage
      totalPages == Ceil(Len(list), postsPerPage)
  IN  [ posts |-> Slice(list, startIndex, endIndex),
        currentPage |-> page, totalPages |-> totalPages,
        hasNextPage |-> page < totalPages, hasPrevPage |-> page > 1 ]

MaxPosts == 22

MaxPerPage == 3

\* the directories of the model: n numbered posts whose dates alternate, and
\* two posts with one title, written on different days
SiteDirs ==
  LET SitePost(date) ==
        [ title |-> TestPost, author |-> AuthorAl, date |-> date,
          heroImage |-> UnknownImage, tags |-> <<>>, body |-> <<>> ]
      PostFile(i) ==
        (IF i % 2 = 1 THEN Date2 ELSE Date1) \o <<"-", "p">> \o Pad(i, 2) \o MdxExt
      FooOld == Date2 \o <<"-","f","o","o">> \o MdxExt
      FooNew == Date1 \o <<"-","f","o","o">> \o MdxExt
  IN  { [ f \in { PostFile(i) : i \in 1 .. n } |-> SitePost(SubSeq(f, 1, 10)) ] :
          n \in 0 .. MaxPosts }
      \cup { [ f \in { FooOld, FooNew } |-> SitePost(SubSeq(f, 1, 10)) ] }

InitSite ==
  /\ docs = [ s \in {1} |-> DocGood ]
  /\ importDir = {1}
  /\ posts \in SiteDirs
  /\ run = IdleRun
  /\ ret = [ op |-> "none" ]
  /\ imagesDir = LocalImages

CallGetAllPosts ==
  /\ ret' = [ op |-> "getAllPosts", out |-> getAllPosts(posts) ]
  /\ UNCHANGED << docs, imagesDir, importDir, posts, run >>

\* a page of the site: paginatePosts(allPosts, page) on the list getAllPosts
\* returned, with the default page size or with a page size of its own
CallPaginatePosts ==
  /\ ret.op \in { "getAllPosts", "paginatePosts" }
  /\ LET allPosts == IF ret.op = "getAllPosts" THEN ret.out ELSE ret.list
     IN  \E postsPerPage \in (1 .. MaxPerPage) \cup { DefaultPerPage } :
         \E page \in 1 .. (Ceil(Len(allPosts), postsPerPage) + 1) :
           ret' = [ op |-> "paginatePosts", list |-> allPosts, page |-> page,
                    postsPerPage |-> postsPerPage,
                    out |-> paginatePosts(allPosts, page, postsPerPage) ]
  /\ UNCHANGED << docs, imagesDir, importDir, posts, run >>

NextSite ==
  \/ CallGetAllPosts
  \/ CallPaginatePosts

SpecSite == InitSite /\ [][NextSite]_vars

(***************************************************************************)
(* Properties                                                              *)
(***************************************************************************)
\* the output file name of a document: it does not depend on the images
OutputFilename(doc) ==
  generateFilename(extractMetadata(doc).date, extractMetadata(doc).title)

\* the record convertFile produces from source s is the text of its output file
OwnRecordPresent(s) ==
  \E dirOk \in BOOLEAN :
    LET r == convertFile(docs[s], TRUE, imagesDir, dirOk)
    IN  r.success /\ r.filename \in DOMAIN posts /\ posts[r.filename] = r.content

\* C1: at the end of a convertAllFiles run no output file was written twice in
\* the run, and every file written holds the content of the first document
\* that produced its name (a second document with the same name is a
\* collision and does not overwrite).
C1_CollisionDoesNotOverwrite ==
  ret.op = "summary" =>
    /\ \A i, j \in DOMAIN ret.saved :
         i < j => ret.saved[i].filename # ret.saved[j].filename
    /\ \A i \in DOMAIN ret.saved :
         (\A j \in 1 .. (i - 1) : ret.saved[j].filename # ret.saved[i].filename)
           => posts[ret.saved[i].filename] = ret.saved[i].content

C3_DeletedOnlyIfOwnRecordPresent ==
  ret.op = "cleanup" => \A s \in ret.deleted : OwnRecordPresent(s)

\* C4: a dry cleanup run removes no file from import/ nor from src/posts.
C4_DryRunRemovesNothing ==
  [][ (ret'.op = "cleanup" /\ ret'.dryRun)
        => (importDir' = importDir /\ posts' = posts) ]_vars

\* a dry run that passed validation and listed a source as deletable
C4_Witness ==
  /\ ret.op = "cleanup" /\ ret.dryRun /\ ret.success
  /\ ret.canDelete > 0
  /\ importDir = Sources

\* C5: a Validator run, and a cleanup run refused for invalid records, change
\* neither the source files nor the output files.
C5_ValidationChangesNothing ==
  [][ (ret'.op = "validate" \/ (ret'.op = "cleanup" /\ ~ret'.success))
        => (importDir' = importDir /\ posts' = posts) ]_vars

\* a live cleanup run refused although a source has a matching output file
C5_Witness ==
  /\ ret.op = "cleanup" /\ ~ret.dryRun /\ ~ret.success
  /\ \E s \in importDir : MapFileToConverted(docs[s], DOMAIN posts).canDelete
  /\ \E f \in DOMAIN posts : validateFile(f, posts[f], TRUE, imagesDir, TRUE) # {}

\* C6: a batch run is aborted only by an inaccessible directory; a failure of
\* one document is recorded with a reason and the documents after it are
\* still processed.
C6_DocumentFailureDoesNotAbort ==
  /\ ret.op = "threw" => ret.cause = "output directory"
  /\ ret.op = "summary" =>
       /\ \A i \in DOMAIN ret.files : ret.calls[ret.files[i]] >= 1
       /\ \A i \in DOMAIN ret.errors : ret.errors[i][2] # ""
       /\ Len(ret.errors) = ret.failed

C8_AtMostOncePerRun ==
  /\ \A s \in Sources : run.calls[s] <= 1
  /\ ret.op \in {"summary", "results"} =>
       \A s \in Sources : ret.calls[s] <= 1

\* a finished run of all sources in which a document failed
C8_Witness ==
  /\ ret.op = "summary" /\ ret.failed >= 1
  /\ Len(ret.files) = NumSources
  /\ \A s \in Sources : ret.calls[s] = 1

\* C9: in a convertAllFiles run a document whose output file name is present
\* in the output directory when its turn comes (found there when the run
\* started, or written earlier in the run) is skipped and not saved again.
C9_PresentIsSkipped ==
  (Running /\ run.mode = "all" /\ ret.op = "convert" /\ ret.outcome = "saved")
    => /\ ret.filename \notin run.existing
       /\ \A j \in 1 .. (Len(run.saved) - 1) :
            run.saved[j].filename # ret.filename

\* C10: every record saved carries 3 to 5 tags, printed as a bracketed list.
C10_ThreeToFiveTags ==
  (ret.op = "convert" /\ ret.outcome = "saved") =>
     /\ Len(posts[ret.filename].tags) >= 3
     /\ Len(posts[ret.filename].tags) <= 5
     /\ ~TagsLineIsPlaceholder(posts[ret.filename].tags)

\* C14: generateTags returns 3 to 5 tags, all lower-case and pairwise
\* distinct, on the normal path, the fallback path and the failure path.
C14_ThreeToFiveDistinctTags ==
  ret.op = "generateTags" =>
    /\ Len(ret.out) >= 3 /\ Len(ret.out) <= 5
    /\ \A i \in DOMAIN ret.out : ret.out[i] = ToLower(ret.out[i])
    /\ \A i, j \in DOMAIN ret.out : i # j => ret.out[i] # ret.out[j]

\* C11: every record a successful convertFile produces has a non-empty title,
\* author and date, each the extracted value or its sentinel, and a heroImage
\* that is the sentinel or the local path of a named file.
C11_FourFieldsPresent ==
  (ret.op = "convertFile" /\ ret.out.success) =>
    LET c == ret.out.content
        d == docs[1]
    IN  /\ c.title # <<>> /\ c.author # <<>> /\ c.date # <<>>
        /\ c.title \in { Trim(d.title), UnknownTitle }
        /\ c.author \in { Trim(d.author), UnknownAuthor }
        /\ d.datetime.kind # "valid" => c.date = UnknownDate
        /\ \/ c.heroImage = UnknownImage
           \/ c.heroImage.kind = "local" /\ c.heroImage.file \in ret.local

\* a record whose title, date and heroImage are all sentinels
C11_Witness ==
  /\ ret.op = "convertFile" /\ ret.out.success
  /\ Trim(docs[1].title) = <<>>
  /\ ret.out.content.title = UnknownTitle
  /\ ret.out.content.date = UnknownDate
  /\ ret.out.content.heroImage = UnknownImage

\* C12: for a document without author text (no author element, or one with
\* only white space) extractMetadata returns the author "Unknown author".
C12_AuthorSentinel ==
  ( /\ ret.op = "extractMetadata"
    /\ \A i \in DOMAIN docs[1].author : IsSpace(docs[1].author[i]) )
  => ret.out.author = UnknownAuthor

\* the sentinel was returned for an author element with white space only
C12_Witness ==
  /\ ret.op = "extractMetadata"
  /\ docs[1].author # <<>>
  /\ \A i \in DOMAIN docs[1].author : IsSpace(docs[1].author[i])
  /\ ret.out.author = UnknownAuthor

\* C13: a missing or unparseable timestamp gives the date "Unknown date" and
\* the conversion still succeeds; a parseable one gives a date YYYY-MM-DD.
C13_DateSentinelOrIso ==
  /\ ret.op = "extractMetadata" =>
       IF docs[1].datetime.kind = "valid"
         THEN IsIsoDate(ret.out.date)
         ELSE ret.out.date = UnknownDate
  /\ (ret.op = "convertFile" /\ ret.readOk /\ ret.dirOk
        /\ docs[1].datetime.kind # "valid")
     => (ret.out.success /\ ret.out.content.date = UnknownDate)

\* the image items of a rewritten body
IsImageItem(it) == it.k \in { "mdimg", "htmlimg" }

\* C15 as claimed: when some image resolves to a local asset, the hero image
\* is the local path of the first image that does, wherever it stands.
C15_HeroIsFirstResolvable ==
  ( /\ ret.op = "processImages" /\ ret.dirOk
    /\ \E i \in DOMAIN ret.images : ret.images[i].file \in ret.local )
  => LET k == CHOOSE i \in DOMAIN ret.images :
                /\ ret.images[i].file \in ret.local
                /\ \A j \in 1 .. (i - 1) : ret.images[j].file \notin ret.local
     IN  ret.out.heroImage = [ kind |-> "local", file |-> ret.images[k].file ]

\* C15 as amended: the hero image is the local path of the document's first
\* image when that image resolves to a local asset; otherwise it is
\* "Unknown image", whatever the later images resolve to.
C15_HeroIsFirstImageIfLocal ==
  ret.op = "processImages" =>
    ret.out.heroImage =
      IF ret.dirOk /\ ret.images # <<>> /\ ret.images[1].file \in ret.local
        THEN [ kind |-> "local", file |-> ret.images[1].file ]
        ELSE UnknownImage

\* the first image does not resolve, a later one does, and there is no hero
C15_Witness ==
  /\ ret.op = "processImages" /\ ret.dirOk
  /\ ret.images # <<>> /\ ret.images[1].file \notin ret.local
  /\ \E i \in DOMAIN ret.images : ret.images[i].file \in ret.local
  /\ ret.out.heroImage = UnknownImage

\* C16: in a record whose heroImage is a local path no image of the rewritten
\* body points to that path.
C16_HeroNotInBody ==
  ( /\ ret.op = "convertFile" /\ ret.out.success
    /\ ret.out.content.heroImage.kind = "local" )
  => \A i \in DOMAIN ret.out.content.body :
       LET it == ret.out.content.body[i]
       IN  ~( /\ IsImageItem(it) /\ it.host = "local"
              /\ it.file = ret.out.content.heroImage.file )

\* C17: every image of the source body other than the hero is referenced in
\* the rewritten body, by its local path when it resolves locally and by its
\* original source otherwise.
C17_NonHeroImagesKept ==
  (ret.op = "convertFile" /\ ret.out.success /\ ret.dirOk) =>
    LET images == extractImages(docs[1])
        body   == ret.out.content.body
    IN  \A i \in DOMAIN images :
          (i = 1 /\ ret.out.content.heroImage.kind = "local")
          \/ \E j \in DOMAIN body :
               /\ IsImageItem(body[j]) /\ body[j].file = images[i].file
               /\ body[j].host = IF images[i].file \in ret.local
                                   THEN "local" ELSE images[i].host

C20_ShortBodyFails ==
  ( /\ ret.op = "validateFile"
    /\ BodyLen(ret.content.body) < MinBodyLength )
  => ret.issues # {}

\* a short body under an unterminated header: the measured text is long
\* enough, the file fails for its structure
C20_Witness ==
  /\ ret.op = "validateFile" /\ ret.readOk /\ ret.form = "unterminated"
  /\ BodyLen(ret.content.body) < MinBodyLength
  /\ "Content too short" \notin ret.issues
  /\ ret.issues # {}

\* C21: validateFile reports a failure for every record without tags; the
\* record convertFile writes without tags carries the placeholder tags line.
C21_NoTagsFails ==
  (ret.op = "validateFile" /\ ret.content.tags = <<>>) => ret.issues # {}

\* C22: validateFile reports a failure for every record that refers to a
\* local image, in its heroImage field or in its body, that is not in the
\* local image directory.
C22_MissingLocalImageFails ==
  ret.op = "validateFile" =>
    LET c == ret.content
        refs == (IF c.heroImage.kind = "local" THEN { c.heroImage.file } ELSE {})
                \cup { c.body[i].file :
                         i \in { j \in DOMAIN c.body :
                                   IsImageItem(c.body[j]) /\ c.body[j].host = "local" } }
    IN  (\E f \in refs : f \notin ret.local) => ret.issues # {}

\* C23: generateFilename(date, title) is <date>-<slug>.mdx, where the slug is
\* the title in lower case with every maximal run of non-alphanumeric
\* characters replaced by one hyphen and the hyphens at both ends removed,
\* which is the slug cleanup.js computes for the title.
C23_FilenameUsesCleanupSlug ==
  ret.op = "generateFilename" =>
    ret.out = ret.date \o <<"-">> \o slugify(ret.title) \o MdxExt

\* C24: convertContentToMDX never throws, also when the local image
\* directory cannot be read: a document whose source file was read is
\* never failed by convertFile.
C24_RewriterNeverFails ==
  (ret.op = "convertFile" /\ ret.readOk) => ret.out.success

\* s holds sub as a contiguous part
ContainsSeq(s, sub) ==
  \E i \in 1 .. (Len(s) - Len(sub) + 1) : SubSeq(s, i, i + Len(sub) - 1) = sub

\* C25: for every link of the source body with text t and target h the
\* rewritten body contains [t](h), also when the link is followed by text or
\* by another link.
C25_LinkTargetsKept ==
  ret.op = "convertContentToMDX" =>
    \A i \in DOMAIN ret.body :
      ret.body[i].k = "p" =>
        \A j \in DOMAIN ret.body[i].elems :
          LET e == ret.body[i].elems[j]
          IN  e.k = "a" =>
                ContainsSeq(ret.out, <<"[">> \o e.t \o <<"]", "(">> \o e.h \o <<")">>)

\* C26: every heading of level 3 to 6 of the source body stands in the
\* rewritten body as that many "#", a space and its text; only headings of
\* level 1 and 2 with a trimmed text under 100 characters are removed.
C26_HeadingsThreeToSixKept ==
  ret.op = "convertContentToMDX" =>
    \A i \in DOMAIN ret.body :
      LET b == ret.body[i]
      IN  (b.k = "h" /\ b.level >= 3) =>
            ContainsSeq(ret.out, Repeat("#", b.level) \o <<" ">> \o b.text)

\* C27: every preformatted code element stands in the rewritten body as an
\* opening fence with a language tag, the element's text unchanged and a
\* closing fence; the tag is a value of the language table, or "text" when
\* the classifier's output is no key of the table or the classifier throws.
C27_CodeBlocksFencedUnchanged ==
  ret.op = "convertContentToMDX" =>
    \A i \in DOMAIN ret.body :
      LET b == ret.body[i]
      IN  b.k = "pre" =>
            /\ detectLanguage(b.franc) \in Range(languageMap) \cup {"text"}
            /\ (b.franc \notin DOMAIN languageMap) => detectLanguage(b.franc) = "text"
            /\ ContainsSeq(ret.out,
                 Fence \o << detectLanguage(b.franc), "\n" >> \o b.code
                       \o <<"\n">> \o Fence)

\* C28: paginatePosts gives totalPages = ceil(n / p); the pages 1 ..
\* totalPages, one after the other, are the list: each page holds at most p
\* posts and only the last may hold fewer; hasNextPage holds exactly when
\* page < totalPages and hasPrevPage exactly when page > 1.
C28_PagesPartitionTheList ==
  ret.op = "paginatePosts" =>
    LET n == Len(ret.list)
        p == ret.postsPerPage
        total == ret.out.totalPages
        pageOf(k) == paginatePosts(ret.list, k, p).posts
    IN  /\ total * p >= n /\ (total - 1) * p < n
        /\ Flatten([ k \in 1 .. total |-> pageOf(k) ]) = ret.list
        /\ \A k \in 1 .. total :
             /\ Len(pageOf(k)) <= p
             /\ k < total => Len(pageOf(k)) = p
        /\ \A i \in DOMAIN ret.out.posts :
             ret.out.posts[i] = ret.list[(ret.page - 1) * p + i]
        /\ ret.page <= total => ret.out.posts = pageOf(ret.page)
        /\ ret.out.hasNextPage <=> ret.page < total
        /\ ret.out.hasPrevPage <=> ret.page > 1

\* the second page of 21 posts under the default page size: one post
C28_Witness ==
  /\ ret.op = "paginatePosts" /\ ret.postsPerPage = DefaultPerPage
  /\ Len(ret.list) = 21 /\ ret.page = 2
  /\ Len(ret.out.posts) = 1
  /\ ret.out.hasPrevPage /\ ~ret.out.hasNextPage

\* C30: two different files of the post directory whose names follow the
\* naming convention never get the same slug, so no two posts of
\* getAllPosts have the same URL.
C30_DistinctFilesDistinctUrls ==
  ret.op = "getAllPosts" =>
    \A i, j \in DOMAIN ret.out :
      ( /\ ret.out[i].file # ret.out[j].file
        /\ MatchesNamingConvention(ret.out[i].file)
        /\ MatchesNamingConvention(ret.out[j].file) )
      => /\ ret.out[i].slug # ret.out[j].slug
         /\ ret.out[i].url # ret.out[j].url

\* C29: at the end of a batch run converted + skipped + failed is the number
\* of source files, and the reported total of MDX files is the number of
\* files in the output directory.
C29_SummaryCountsAddUp ==
  ret.op = "summary" =>
    /\ ret.converted + ret.skipped + ret.failed = Len(ret.files)
    /\ ret.totalNow = Cardinality(DOMAIN posts)

====
